---- MODULE Spec2Model ----
(***************************************************************************)
(* Model of qlib/data/dataset/loader.py: DLWParser and QlibDataLoader.     *)
(*                                                                         *)
(* Python values are records tagged with their type (kind).  A dict is a   *)
(* sequence of (key, value) entries in insertion order.  A DataFrame is a  *)
(* record of its index level names, its column labels and its rows in      *)
(* storage order; a column label is a tuple (<<name>> when flat,           *)
(* <<group, name>> under a two-level column axis).                         *)
(* The data engine D (D.instruments, D.features) is outside this file: it  *)
(* is a deterministic but arbitrary collaborator, drawn at Init.           *)
(***************************************************************************)
EXTENDS Integers, Sequences, FiniteSets, TLC

VARIABLES
    config,       \* the config argument of the constructor
    engine,       \* the data engine D behind the loader
    ctor,         \* "new", "ok" (constructor returned) or "failed" (it raised)
    ctorErr,      \* the exception the constructor raised
    filter_pipe,  \* self.filter_pipe
    is_group,     \* self.is_group
    fields,       \* self.fields
    pc,           \* "idle", or "loading" inside load()
    args,         \* arguments of the current (or last) call
    grpIdx,       \* position of load() in self.fields
    parts,        \* the group tables load() has collected
    calls,        \* calls made by the current (or last) call, in order
    ret,          \* outcome of the last finished call
    memo,         \* per load() arguments: the first outcome and the number of calls
    nLoads        \* calls started so far

vars == <<config, engine, ctor, ctorErr, filter_pipe, is_group, fields,
          pc, args, grpIdx, parts, calls, ret, memo, nLoads>>

\* ---------------------------------------------------------------- bounds
MaxLoads == 2

\* ------------------------------------------------------- Python values
PyList(s)  == [kind |-> "list",  items |-> s]
PyTuple(s) == [kind |-> "tuple", items |-> s]
PyStr      == [kind |-> "str",   items |-> <<>>]
PySet      == [kind |-> "set",   items |-> <<>>]
PyDict(s)  == [kind |-> "dict",  items |-> s]
Entry(g, v) == [grp |-> g, spec |-> v]

NoGroup  == "-"
NoFilter == "None"
NoTime   == 0
NoErr    == "none"

L12 == PyList(<<"e1", "e2">>)
L1  == PyList(<<"e1">>)
L2  == PyList(<<"e2">>)
N12 == PyList(<<"n1", "n2">>)
N1  == PyList(<<"n1">>)

\* field specifications the constructor parses without an error
GoodSpecs == { L12, PyTuple(<<L12, N12>>), PyTuple(<<L12, N1>>) }
\* field specifications of an unsupported shape
BadSpecs  == { PyStr, PySet, PyTuple(<<L1>>), PyTuple(<<L12, N12, N1>>) }

GroupedConfigs ==
    { PyDict(<<>>),
      PyDict(<<Entry("feature", L12), Entry("label", PyTuple(<<L1, N1>>))>>),
      PyDict(<<Entry("label", PyTuple(<<L1, N1>>)), Entry("feature", L12)>>),
      PyDict(<<Entry("feature", L1), Entry("label", L2)>>),
      PyDict(<<Entry("feature", PyTuple(<<L12, N1>>))>>),
      PyDict(<<Entry("feature", L1), Entry("label", PyStr)>>),
      PyDict(<<Entry("feature", PySet), Entry("label", L1)>>),
      PyDict(<<Entry("feature", L1), Entry("label", PyTuple(<<L12, N12, N1>>))>>),
      PyDict(<<Entry("feature", PyTuple(<<L1>>)), Entry("label", PyStr)>>) }

Configs == GoodSpecs \cup BadSpecs \cup GroupedConfigs

\* ------------------------------------------------------------ DLWParser
\* _parse_fields_info unpacking the pair in the wrong order
_parse_fields_info_swapped(fields_info) ==
    IF fields_info.kind = "list"
    THEN [err |-> NoErr, exprs |-> fields_info, names |-> fields_info]
    ELSE IF fields_info.kind = "tuple"
    THEN IF Len(fields_info.items) = 2
         THEN [err |-> NoErr, exprs |-> fields_info.items[2], names |-> fields_info.items[1]]
         ELSE [err |-> "ValueError", exprs |-> PyList(<<>>), names |-> PyList(<<>>)]
    ELSE [err |-> "NotImplementedError", exprs |-> PyList(<<>>), names |-> PyList(<<>>)]

\* _parse_fields_info: (exprs, names) or the exception raised.
\* Unpacking a tuple whose length is not 2 raises ValueError.
_parse_fields_info(fields_info) ==
    IF fields_info.kind = "list"
    THEN [err |-> NoErr, exprs |-> fields_info, names |-> fields_info]
    ELSE IF fields_info.kind = "tuple"
    THEN IF Len(fields_info.items) = 2
         THEN [err |-> NoErr, exprs |-> fields_info.items[1], names |-> fields_info.items[2]]
         ELSE [err |-> "ValueError", exprs |-> PyList(<<>>), names |-> PyList(<<>>)]
    ELSE [err |-> "NotImplementedError", exprs |-> PyList(<<>>), names |-> PyList(<<>>)]

Field(g, p) == [grp |-> g, exprs |-> p.exprs, names |-> p.names]

\* the dict comprehension of __init__: entries are parsed in insertion
\* order and the first exception ends the comprehension
RECURSIVE ParseGroups(_, _)
ParseGroups(entries, acc) ==
    IF entries = <<>> THEN [err |-> NoErr, fields |-> acc]
    ELSE LET p == _parse_fields_info(Head(entries).spec)
         IN  IF p.err # NoErr THEN [err |-> p.err, fields |-> <<>>]
             ELSE ParseGroups(Tail(entries), Append(acc, Field(Head(entries).grp, p)))

\* DLWParser.__init__: is_group and the field map (an ungrouped field pair
\* is the one-entry map under NoGroup)
DLWParser_init(cfg) ==
    IF cfg.kind = "dict"
    THEN LET r == ParseGroups(cfg.items, <<>>)
         IN  [err |-> r.err, is_group |-> TRUE, fields |-> r.fields]
    ELSE LET p == _parse_fields_info(cfg)
         IN  [err |-> p.err, is_group |-> FALSE,
              fields |-> IF p.err = NoErr THEN <<Field(NoGroup, p)>> ELSE <<>>]

\* ------------------------------------------------------ the data engine D
Instruments == <<"SH600000", "SH600004">>
Dates       == {1, 2}
InstRank(i) == CHOOSE k \in 1..Len(Instruments) : Instruments[k] = i

UniverseName(n) == [kind |-> "str",  name |-> n,   items |-> <<>>]
InstList(s)     == [kind |-> "list", name |-> "-", items |-> s]

RowKey(i, d) == [instrument |-> i, datetime |-> d]
RowKeys == { RowKey(Instruments[k], d) : k \in 1..Len(Instruments), d \in Dates }
\* every order in which the engine may store (and return) its rows
RowOrders == { o \in [1..Cardinality(RowKeys) -> RowKeys] :
                 \A a, b \in 1..Cardinality(RowKeys) : a # b => o[a] # o[b] }
Engines == [order : RowOrders, failResolve : BOOLEAN, badExpr : {"-", "e2"}]

NoTable == [index_names |-> <<>>, columns |-> <<>>, rows |-> <<>>]
InRange(d, start_time, end_time) ==
    /\ (start_time = NoTime \/ start_time <= d)
    /\ (end_time = NoTime \/ d <= end_time)
RECURSIVE SeqToSet(_)
SeqToSet(s) == IF s = <<>> THEN {} ELSE {Head(s)} \cup SeqToSet(Tail(s))

\* D.instruments(market, filter_pipe): the universe, narrowed by the filter
D_instruments(market, fp) ==
    IF engine.failResolve
    THEN [err |-> "EngineError", value |-> InstList(<<>>)]
    ELSE [err |-> NoErr,
          value |-> IF fp = NoFilter THEN InstList(Instruments)
                    ELSE InstList(<<Instruments[1]>>)]

\* D.features(instruments, fields, start_time, end_time): a table indexed by
\* (instrument, datetime), one column per field, rows in the engine's order
D_features(instruments, exprs, start_time, end_time) ==
    IF engine.badExpr \in SeqToSet(exprs.items)
    THEN [err |-> "EngineError", df |-> NoTable]
    ELSE LET Keep(k) == /\ k.instrument \in SeqToSet(instruments.items)
                        /\ InRange(k.datetime, start_time, end_time)
             keys == SelectSeq(engine.order, Keep)
             Val(k, e) == [instrument |-> k.instrument, datetime |-> k.datetime, expr |-> e]
         IN  [err |-> NoErr,
              df |-> [index_names |-> <<"instrument", "datetime">>,
                      columns |-> [i \in 1..Len(exprs.items) |-> <<exprs.items[i]>>],
                      rows |-> [r \in 1..Len(keys) |->
                                  [idx |-> keys[r],
                                   vals |-> [i \in 1..Len(exprs.items) |-> Val(keys[r], exprs.items[i])]]]]]

\* ------------------------------------------------------ pandas operations
\* df.columns = names (the caller has checked the length)
set_columns(df, names) ==
    [df EXCEPT !.columns = [i \in 1..Len(names.items) |-> <<names.items[i]>>]]

\* df.swaplevel(): swaps the last two index levels
swaplevel(df) ==
    [df EXCEPT !.index_names = <<df.index_names[2], df.index_names[1]>>]

LevelKey(k, level) == IF level = "datetime" THEN k.datetime ELSE InstRank(k.instrument)
\* lexicographic order of two index keys under the index's level order
KeyLess(a, b, levels) ==
    \/ LevelKey(a, levels[1]) < LevelKey(b, levels[1])
    \/ /\ LevelKey(a, levels[1]) = LevelKey(b, levels[1])
       /\ LevelKey(a, levels[2]) < LevelKey(b, levels[2])

RECURSIVE InsertRow(_, _, _)
InsertRow(sorted, row, levels) ==
    IF sorted = <<>> THEN <<row>>
    ELSE IF KeyLess(row.idx, Head(sorted).idx, levels)
         THEN <<row>> \o sorted
         ELSE <<Head(sorted)>> \o InsertRow(Tail(sorted), row, levels)
RECURSIVE SortRows(_, _)
SortRows(rows, levels) ==
    IF rows = <<>> THEN <<>>
    ELSE InsertRow(SortRows(SubSeq(rows, 1, Len(rows) - 1), levels), rows[Len(rows)], levels)

\* the table left in the engine's row order
sort_index_skipped(df) == df

\* df.sort_index(): rows ascending by the index levels, first level major
sort_index(df) == [df EXCEPT !.rows = SortRows(df.rows, df.index_names)]

\* --------------------------------------------------------- QlibDataLoader
CallRec(op, g, inst, exprs, names, st, et, fp) ==
    [op |-> op, grp |-> g, inst |-> inst, exprs |-> exprs, names |-> names,
     start |-> st, end |-> et, filter |-> fp]
NoList == PyList(<<>>)

\* load_group_df, lines 138-141, raising on a filter pipeline that cannot be
\* applied instead of warning
instruments_of_strict(self_filter_pipe, instruments) ==
    IF instruments.kind = "str"
    THEN LET r == D_instruments(instruments.name, self_filter_pipe)
         IN  [calls |-> <<CallRec("D.instruments", NoGroup, instruments, NoList, NoList,
                                  NoTime, NoTime, self_filter_pipe)>>,
              err |-> r.err, value |-> r.value]
    ELSE IF self_filter_pipe # NoFilter
    THEN [calls |-> <<>>, err |-> "ValueError", value |-> instruments]
    ELSE [calls |-> <<>>, err |-> NoErr, value |-> instruments]

\* load_group_df, lines 138-141, keeping the universe name after resolving it
instruments_of_unresolved(self_filter_pipe, instruments) ==
    IF instruments.kind = "str"
    THEN LET r == D_instruments(instruments.name, self_filter_pipe)
         IN  [calls |-> <<CallRec("D.instruments", NoGroup, instruments, NoList, NoList,
                                  NoTime, NoTime, self_filter_pipe)>>,
              err |-> r.err, value |-> instruments]
    ELSE IF self_filter_pipe # NoFilter
    THEN [calls |-> <<CallRec("warnings.warn", NoGroup, instruments, NoList, NoList,
                              NoTime, NoTime, self_filter_pipe)>>,
          err |-> NoErr, value |-> instruments]
    ELSE [calls |-> <<>>, err |-> NoErr, value |-> instruments]

\* load_group_df, lines 138-141: a universe name is resolved by D.instruments
\* under the stored filter pipeline; a collection is kept, with a warning
\* when a filter pipeline is stored
instruments_of(self_filter_pipe, instruments) ==
    IF instruments.kind = "str"
    THEN LET r == D_instruments(instruments.name, self_filter_pipe)
         IN  [calls |-> <<CallRec("D.instruments", NoGroup, instruments, NoList, NoList,
                                  NoTime, NoTime, self_filter_pipe)>>,
              err |-> r.err, value |-> r.value]
    ELSE IF self_filter_pipe # NoFilter
    THEN [calls |-> <<CallRec("warnings.warn", NoGroup, instruments, NoList, NoList,
                              NoTime, NoTime, self_filter_pipe)>>,
          err |-> NoErr, value |-> instruments]
    ELSE [calls |-> <<>>, err |-> NoErr, value |-> instruments]

\* load_group_df: the calls it makes, the exception raised (NoErr if none)
\* and the table returned.  Assigning df.columns a list of another length
\* raises ValueError.
load_group_df(self_filter_pipe, instruments, exprs, names, start_time, end_time) ==
    LET res == instruments_of(self_filter_pipe, instruments)
    IN  IF res.err # NoErr THEN [calls |-> res.calls, err |-> res.err, df |-> NoTable]
        ELSE LET f == D_features(res.value, exprs, start_time, end_time)
                 c2 == Append(res.calls, CallRec("D.features", NoGroup, res.value, exprs, NoList,
                                                 start_time, end_time, NoFilter))
             IN  IF f.err # NoErr THEN [calls |-> c2, err |-> f.err, df |-> NoTable]
                 ELSE IF Len(names.items) # Len(f.df.columns)
                 THEN [calls |-> c2, err |-> "ValueError", df |-> NoTable]
                 ELSE [calls |-> c2, err |-> NoErr,
                       df |-> sort_index(swaplevel(set_columns(f.df, names)))]

\* ------------------------------------------------------------- pd.concat
RECURSIVE SortedKeys(_, _)
SortedKeys(keys, levels) ==
    IF keys = {} THEN <<>>
    ELSE LET m == CHOOSE k \in keys : \A o \in keys \ {k} : KeyLess(k, o, levels)
         IN  <<m>> \o SortedKeys(keys \ {m}, levels)

NaN == [instrument |-> "-", datetime |-> 0, expr |-> "NaN"]
RowVals(df, k) ==
    IF \E r \in 1..Len(df.rows) : df.rows[r].idx = k
    THEN df.rows[CHOOSE r \in 1..Len(df.rows) : df.rows[r].idx = k].vals
    ELSE [i \in 1..Len(df.columns) |-> NaN]

RECURSIVE ConcatColumns(_)
ConcatColumns(ps) ==
    IF ps = <<>> THEN <<>>
    ELSE [i \in 1..Len(Head(ps).df.columns) |-> <<Head(ps).grp>> \o Head(ps).df.columns[i]]
         \o ConcatColumns(Tail(ps))
RECURSIVE ConcatVals(_, _)
ConcatVals(ps, k) ==
    IF ps = <<>> THEN <<>> ELSE RowVals(Head(ps).df, k) \o ConcatVals(Tail(ps), k)

\* pd.concat({grp: df, ...}, axis=1): the tables side by side in the dict's
\* order, each column label prefixed by its key, rows joined on the index
concat(ps) ==
    IF ps = <<>> THEN [err |-> "ValueError", df |-> NoTable]
    ELSE LET levels == ps[1].df.index_names
             keys == SortedKeys(UNION { { ps[p].df.rows[r].idx : r \in 1..Len(ps[p].df.rows) }
                                        : p \in 1..Len(ps) }, levels)
         IN  [err |-> NoErr,
              df |-> [index_names |-> levels,
                      columns |-> ConcatColumns(ps),
                      rows |-> [r \in 1..Len(keys) |->
                                  [idx |-> keys[r], vals |-> ConcatVals(ps, keys[r])]]]]

\* ------------------------------------------------------------ the calls
FilterPipes == {NoFilter, "f1"}
InstArgs == { UniverseName("csi300"), InstList(<<"SH600004", "SH600000">>) }
TimeArgs == { <<NoTime, NoTime>>, <<2, NoTime>> }
Args(inst, exprs, names, t) ==
    [inst |-> inst, exprs |-> exprs, names |-> names, start |-> t[1], end |-> t[2]]
LoadArgs == { Args(i, NoList, NoList, t) : i \in InstArgs, t \in TimeArgs }
GroupArgs == { Args(i, p[1], p[2], <<NoTime, 2>>) : i \in InstArgs,
               p \in { <<L12, L12>>, <<L12, N12>>, <<L2, N1>>, <<L12, N1>> } }
NoRet == [op |-> "none", err |-> NoErr, df |-> NoTable]
Ret(op, err, df) == [op |-> op, err |-> err, df |-> df]
Remember(m, a, r) ==
    [m EXCEPT ![a] = [first |-> IF @.n = 0 THEN r ELSE @.first, n |-> @.n + 1]]

Init ==
    /\ config \in Configs
    /\ engine \in Engines
    /\ ctor = "new" /\ ctorErr = NoErr
    /\ filter_pipe = NoFilter /\ is_group = FALSE /\ fields = <<>>
    /\ pc = "idle" /\ args = Args(InstList(<<>>), NoList, NoList, <<NoTime, NoTime>>)
    /\ grpIdx = 0 /\ parts = <<>> /\ calls = <<>> /\ ret = NoRet
    /\ memo = [a \in LoadArgs |-> [first |-> NoRet, n |-> 0]]
    /\ nLoads = 0

\* QlibDataLoader.__init__(config, filter_pipe)
Construct ==
    /\ ctor = "new"
    /\ \E fp \in FilterPipes :
         LET r == DLWParser_init(config)
         IN  /\ filter_pipe' = fp
             /\ is_group' = r.is_group
             /\ fields' = r.fields
             /\ ctorErr' = r.err
             /\ ctor' = IF r.err = NoErr THEN "ok" ELSE "failed"
    /\ UNCHANGED <<config, engine, pc, args, grpIdx, parts, calls, ret, memo, nLoads>>

\* load(instruments, start_time, end_time): entry
LoadCall ==
    /\ ctor = "ok" /\ pc = "idle" /\ nLoads < MaxLoads
    /\ \E a \in LoadArgs : args' = a
    /\ pc' = "loading" /\ grpIdx' = 1 /\ parts' = <<>> /\ calls' = <<>>
    /\ nLoads' = nLoads + 1
    /\ UNCHANGED <<config, engine, ctor, ctorErr, filter_pipe, is_group, fields, ret, memo>>

Reverse(s) == [i \in 1..Len(s) |-> s[Len(s) + 1 - i]]

\* LoadGroup consuming the entry's name list while it loads the group
LoadGroup_pops_names ==
    /\ pc = "loading" /\ grpIdx <= Len(fields)
    /\ LET f == fields[grpIdx]
           r == load_group_df(filter_pipe, args.inst, f.exprs, f.names, args.start, args.end)
           c == Append(calls, CallRec("load_group_df", f.grp, args.inst, f.exprs, f.names,
                                      args.start, args.end, NoFilter)) \o r.calls
       IN  /\ calls' = c
           /\ fields' = [fields EXCEPT ![grpIdx].names = PyList(SubSeq(@.items, 2, Len(@.items)))]
           /\ IF r.err # NoErr
              THEN /\ pc' = "idle"
                   /\ ret' = Ret("load", r.err, NoTable)
                   /\ memo' = Remember(memo, args, ret')
                   /\ UNCHANGED <<parts, grpIdx>>
              ELSE /\ parts' = Append(parts, [grp |-> f.grp, df |-> r.df])
                   /\ grpIdx' = grpIdx + 1
                   /\ UNCHANGED <<pc, ret, memo>>
    /\ UNCHANGED <<config, engine, ctor, ctorErr, filter_pipe, is_group, args, nLoads>>

\* LoadGroup passing end_time and start_time in each other's place
LoadGroup_swapped_times ==
    /\ pc = "loading" /\ grpIdx <= Len(fields)
    /\ LET f == fields[grpIdx]
           r == load_group_df(filter_pipe, args.inst, f.exprs, f.names, args.end, args.start)
           c == Append(calls, CallRec("load_group_df", f.grp, args.inst, f.exprs, f.names,
                                      args.end, args.start, NoFilter)) \o r.calls
       IN  /\ calls' = c
           /\ IF r.err # NoErr
              THEN /\ pc' = "idle"
                   /\ ret' = Ret("load", r.err, NoTable)
                   /\ memo' = Remember(memo, args, ret')
                   /\ UNCHANGED <<parts, grpIdx>>
              ELSE /\ parts' = Append(parts, [grp |-> f.grp, df |-> r.df])
                   /\ grpIdx' = grpIdx + 1
                   /\ UNCHANGED <<pc, ret, memo>>
    /\ UNCHANGED <<config, engine, ctor, ctorErr, filter_pipe, is_group, fields, args, nLoads>>

\* LoadGroup calling load_group_df a second time when the first call raised
LoadGroup_retries ==
    /\ pc = "loading" /\ grpIdx <= Len(fields)
    /\ LET f == fields[grpIdx]
           r == load_group_df(filter_pipe, args.inst, f.exprs, f.names, args.start, args.end)
           c == Append(calls, CallRec("load_group_df", f.grp, args.inst, f.exprs, f.names,
                                      args.start, args.end, NoFilter)) \o r.calls
                \o (IF r.err # NoErr THEN r.calls ELSE <<>>)
       IN  /\ calls' = c
           /\ IF r.err # NoErr
              THEN /\ pc' = "idle"
                   /\ ret' = Ret("load", r.err, NoTable)
                   /\ memo' = Remember(memo, args, ret')
                   /\ UNCHANGED <<parts, grpIdx>>
              ELSE /\ parts' = Append(parts, [grp |-> f.grp, df |-> r.df])
                   /\ grpIdx' = grpIdx + 1
                   /\ UNCHANGED <<pc, ret, memo>>
    /\ UNCHANGED <<config, engine, ctor, ctorErr, filter_pipe, is_group, fields, args, nLoads>>

\* load(): one load_group_df call, for the next entry of self.fields; an
\* exception leaves load()
LoadGroup ==
    /\ pc = "loading" /\ grpIdx <= Len(fields)
    /\ LET f == fields[grpIdx]
           r == load_group_df(filter_pipe, args.inst, f.exprs, f.names, args.start, args.end)
           c == Append(calls, CallRec("load_group_df", f.grp, args.inst, f.exprs, f.names,
                                      args.start, args.end, NoFilter)) \o r.calls
       IN  /\ calls' = c
           /\ IF r.err # NoErr
              THEN /\ pc' = "idle"
                   /\ ret' = Ret("load", r.err, NoTable)
                   /\ memo' = Remember(memo, args, ret')
                   /\ UNCHANGED <<parts, grpIdx>>
              ELSE /\ parts' = Append(parts, [grp |-> f.grp, df |-> r.df])
                   /\ grpIdx' = grpIdx + 1
                   /\ UNCHANGED <<pc, ret, memo>>
    /\ UNCHANGED <<config, engine, ctor, ctorErr, filter_pipe, is_group, fields, args, nLoads>>

\* LoadReturn concatenating the group tables last group first
LoadReturn_reversed ==
    /\ pc = "loading" /\ grpIdx > Len(fields)
    /\ LET r == IF is_group THEN concat(Reverse(parts)) ELSE [err |-> NoErr, df |-> parts[1].df]
       IN  ret' = Ret("load", r.err, r.df)
    /\ memo' = Remember(memo, args, ret')
    /\ pc' = "idle"
    /\ UNCHANGED <<config, engine, ctor, ctorErr, filter_pipe, is_group, fields,
                   args, grpIdx, parts, calls, nLoads>>

\* load(): pd.concat of the group tables (grouped) or the one table
\* (ungrouped), and return
LoadReturn ==
    /\ pc = "loading" /\ grpIdx > Len(fields)
    /\ LET r == IF is_group THEN concat(parts) ELSE [err |-> NoErr, df |-> parts[1].df]
       IN  ret' = Ret("load", r.err, r.df)
    /\ memo' = Remember(memo, args, ret')
    /\ pc' = "idle"
    /\ UNCHANGED <<config, engine, ctor, ctorErr, filter_pipe, is_group, fields,
                   args, grpIdx, parts, calls, nLoads>>

\* GroupDfCall dropping the stored filter pipeline it could not apply
GroupDfCall_drops_filter ==
    /\ ctor = "ok" /\ pc = "idle" /\ nLoads < MaxLoads
    /\ \E a \in GroupArgs :
         LET r == load_group_df(filter_pipe, a.inst, a.exprs, a.names, a.start, a.end)
         IN  /\ args' = a
             /\ calls' = r.calls
             /\ ret' = Ret("load_group_df", r.err, r.df)
             /\ filter_pipe' = IF a.inst.kind = "list" THEN NoFilter ELSE filter_pipe
    /\ nLoads' = nLoads + 1
    /\ UNCHANGED <<config, engine, ctor, ctorErr, is_group, fields,
                   pc, grpIdx, parts, memo>>

\* load_group_df(instruments, exprs, names, start_time, end_time) called
\* from outside
GroupDfCall ==
    /\ ctor = "ok" /\ pc = "idle" /\ nLoads < MaxLoads
    /\ \E a \in GroupArgs :
         LET r == load_group_df(filter_pipe, a.inst, a.exprs, a.names, a.start, a.end)
         IN  /\ args' = a
             /\ calls' = r.calls
             /\ ret' = Ret("load_group_df", r.err, r.df)
    /\ nLoads' = nLoads + 1
    /\ UNCHANGED <<config, engine, ctor, ctorErr, filter_pipe, is_group, fields,
                   pc, grpIdx, parts, memo>>

Next == Construct \/ LoadCall \/ LoadGroup \/ LoadReturn \/ GroupDfCall

Spec == Init /\ [][Next]_vars

\* ------------------------------------------------------------ properties
\* the field specifications of a configuration, in order
Specs(cfg) == IF cfg.kind = "dict" THEN [i \in 1..Len(cfg.items) |-> cfg.items[i].spec]
              ELSE <<cfg>>
IsList(v) == v.kind = "list"
IsPair(v) == v.kind = "tuple" /\ Len(v.items) = 2
Supported(v) == IsList(v) \/ IsPair(v)

\* C1: once the constructor has run, a flat list L was parsed to (L, L) and a
\* two-element pair (E, N) to (E, N): expressions and names are the given
\* ones, unchanged and in order; an ungrouped list or pair never fails.
C1_ParseFieldsInfo ==
    /\ (ctor # "new" /\ config.kind # "dict" /\ Supported(config)) => ctor = "ok"
    /\ ctor = "ok" =>
         /\ Len(fields) = Len(Specs(config))
         /\ \A i \in 1..Len(fields) :
              LET v == Specs(config)[i]
              IN  /\ IsList(v) => fields[i].exprs = v /\ fields[i].names = v
                  /\ IsPair(v) => fields[i].exprs = v.items[1] /\ fields[i].names = v.items[2]

C1_Witness ==
    /\ ctor = "ok" /\ is_group
    /\ \E i, j \in 1..Len(fields) :
         /\ IsList(Specs(config)[i]) /\ Len(fields[i].exprs.items) = 2
         /\ IsPair(Specs(config)[j]) /\ fields[j].names # fields[j].exprs

\* C2: a configuration with a field specification that is neither a list nor
\* a two-element pair makes the constructor fail with NotImplementedError,
\* before any load and before any call to the data engine.
C2_UnsupportedConfigKind ==
    (ctor # "new" /\ \E i \in 1..Len(Specs(config)) : ~Supported(Specs(config)[i]))
        => /\ ctor = "failed" /\ ctorErr = "NotImplementedError"
           /\ nLoads = 0 /\ calls = <<>>

\* what a call log holds
IsGroupCall(c)  == c.op = "load_group_df"
IsEngineCall(c) == c.op # "load_group_df"
GroupCalls  == SelectSeq(calls, IsGroupCall)
InnerCalls  == SelectSeq(calls, IsEngineCall)
Count(log, op) == Cardinality({ i \in 1..Len(log) : log[i].op = op })
Done(op) == pc = "idle" /\ ret.op = op

SpecExprs(v) == IF IsList(v) THEN v ELSE v.items[1]
SpecNames(v) == IF IsList(v) THEN v ELSE v.items[2]
GroupOf(cfg, i) == IF cfg.kind = "dict" THEN cfg.items[i].grp ELSE NoGroup

\* the (group, name) pairs of a grouped configuration, groups in insertion
\* order and names in their given order
RECURSIVE ExpectedColumns(_)
ExpectedColumns(entries) ==
    IF entries = <<>> THEN <<>>
    ELSE LET n == SpecNames(Head(entries).spec).items
         IN  [i \in 1..Len(n) |-> <<Head(entries).grp, n[i]>>] \o ExpectedColumns(Tail(entries))

\* C3: a successful load of a grouped configuration returns a table whose
\* columns are exactly the (group, name) pairs of the configuration, groups
\* in insertion order, names in the given order.
C3_GroupedColumns ==
    (Done("load") /\ config.kind = "dict" /\ ret.err = NoErr)
        => /\ Len(config.items) >= 1
           /\ ret.df.columns = ExpectedColumns(config.items)

C3_Witness ==
    /\ Done("load") /\ config.kind = "dict" /\ ret.err = NoErr
    /\ Len(ret.df.columns) = 3
    /\ ret.df.columns[1] = <<"label", "n1">>
    /\ ret.df.columns[3] = <<"feature", "e2">>

\* the collection and the raw table the engine hands to the last call
Resolved == IF args.inst.kind = "str" THEN D_instruments(args.inst.name, filter_pipe).value
            ELSE args.inst
LastExprs == IF ret.op = "load" THEN fields[1].exprs ELSE args.exprs
RawTable == D_features(Resolved, LastExprs, args.start, args.end).df
RowSet(df) == { df.rows[r] : r \in 1..Len(df.rows) }
DatetimeMajor(rows) ==
    \A r \in 1..Len(rows) - 1 :
        \/ rows[r].idx.datetime < rows[r + 1].idx.datetime
        \/ /\ rows[r].idx.datetime = rows[r + 1].idx.datetime
           /\ InstRank(rows[r].idx.instrument) <= InstRank(rows[r + 1].idx.instrument)

\* C4: every successful load_group_df call, and every successful ungrouped
\* load, returns a table indexed (datetime, instrument), sorted ascending by
\* datetime then instrument whatever the order of the engine's raw table, and
\* holding exactly the raw table's rows.
C4_SortedIndex ==
    (pc = "idle" /\ ret.err = NoErr
       /\ (ret.op = "load_group_df" \/ (ret.op = "load" /\ ~is_group)))
        => /\ ret.df.index_names = <<"datetime", "instrument">>
           /\ DatetimeMajor(ret.df.rows)
           /\ RowSet(ret.df) = RowSet(RawTable)
           /\ Len(ret.df.rows) = Len(RawTable.rows)

C4_Witness ==
    /\ pc = "idle" /\ ret.err = NoErr /\ ret.op = "load_group_df"
    /\ Len(ret.df.rows) = 4
    /\ RawTable.rows[1].idx.datetime = 2
    /\ RawTable.rows[2].idx.instrument = "SH600004"
    /\ RawTable.rows[3].idx.instrument = "SH600000"

\* C5: load_group_df with a concrete instrument collection on a loader with a
\* filter pipeline warns exactly once, never resolves instruments, passes the
\* collection as given to D.features, and returns a table unless D.features
\* or the column renaming fails.
C5_IgnoredFilterWarning ==
    (Done("load_group_df") /\ args.inst.kind = "list" /\ filter_pipe # NoFilter)
        => /\ Count(calls, "warnings.warn") = 1
           /\ Count(calls, "D.instruments") = 0
           /\ Count(calls, "D.features") = 1
           /\ calls[Len(calls)] = CallRec("D.features", NoGroup, args.inst, args.exprs, NoList,
                                          args.start, args.end, NoFilter)
           /\ (engine.badExpr \notin SeqToSet(args.exprs.items)
                 /\ Len(args.names.items) = Len(args.exprs.items))
                => (ret.err = NoErr /\ ret.df # NoTable)

C5_Witness ==
    /\ Done("load_group_df") /\ args.inst.kind = "list" /\ filter_pipe # NoFilter
    /\ ret.err = NoErr /\ Len(ret.df.rows) > 0

\* C6: a load whose arguments were used before on the same loader ends as the
\* first load with these arguments did: same exception or same table.
C6_RepeatableLoad ==
    (Done("load") /\ memo[args].n >= 2) => ret = memo[args].first

C6_Witness ==
    /\ Done("load") /\ memo[args].n = 2 /\ ret.err = NoErr
    /\ is_group /\ Len(ret.df.rows) = 4 /\ Len(ret.df.columns) = 3

\* the load_group_df calls a load of the configuration makes
ExpectedGroupCalls ==
    [i \in 1..Len(Specs(config)) |->
        CallRec("load_group_df", GroupOf(config, i), args.inst,
                SpecExprs(Specs(config)[i]), SpecNames(Specs(config)[i]),
                args.start, args.end, NoFilter)]

\* C7: a load calls load_group_df once per entry of the field map, in
\* insertion order (once when ungrouped), each time with the instruments,
\* start_time and end_time of the load and the entry's own expressions and
\* names; a load that raised made a prefix of these calls; the ungrouped
\* result is the table of the one call, with flat column names.
C7_OneCallPerGroup ==
    Done("load")
        => /\ Len(GroupCalls) <= Len(ExpectedGroupCalls)
           /\ GroupCalls = SubSeq(ExpectedGroupCalls, 1, Len(GroupCalls))
           /\ ret.err = NoErr => GroupCalls = ExpectedGroupCalls
           /\ (ret.err = NoErr /\ config.kind # "dict")
                => /\ Len(GroupCalls) = 1
                   /\ ret.df = load_group_df(filter_pipe, args.inst, SpecExprs(config),
                                             SpecNames(config), args.start, args.end).df
                   /\ ret.df.columns = [i \in 1..Len(SpecNames(config).items) |->
                                           <<SpecNames(config).items[i]>>]

C7_Witness ==
    /\ Done("load") /\ ret.err = NoErr /\ config.kind = "dict"
    /\ Len(GroupCalls) = 2 /\ args.start = 2 /\ args.inst.kind = "str"
    /\ GroupCalls[1].grp = "label"

\* C8: load_group_df with a universe name calls D.instruments exactly once,
\* with the name and the loader's filter pipeline, before D.features; it
\* passes the resolved collection to D.features and does not warn.
C8_ResolveUniverse ==
    ((Done("load_group_df") \/ (Done("load") /\ Len(GroupCalls) = 1)) /\ args.inst.kind = "str")
        => /\ Len(InnerCalls) >= 1
           /\ InnerCalls[1] = CallRec("D.instruments", NoGroup, args.inst, NoList, NoList,
                                      NoTime, NoTime, filter_pipe)
           /\ Count(calls, "D.instruments") = 1
           /\ Count(calls, "warnings.warn") = 0
           /\ ~engine.failResolve => Count(calls, "D.features") = 1
           /\ \A i \in 1..Len(InnerCalls) :
                InnerCalls[i].op = "D.features"
                    => /\ i = 2
                       /\ InnerCalls[i].inst.kind = "list"
                       /\ InnerCalls[i].inst = D_instruments(args.inst.name, filter_pipe).value

C8_Witness ==
    /\ Done("load_group_df") /\ args.inst.kind = "str" /\ filter_pipe = NoFilter
    /\ ret.err = NoErr /\ Len(ret.df.rows) = 4

\* C9: no load or load_group_df call, successful or not, changes is_group,
\* the field map or the filter pipeline of a constructed loader.
C9_StoredStateUnchanged ==
    [][ctor = "ok" => /\ ctor' = "ok"
                      /\ is_group' = is_group
                      /\ fields' = fields
                      /\ filter_pipe' = filter_pipe]_vars

C9_Witness ==
    /\ pc = "idle" /\ nLoads >= 2 /\ ret.err # NoErr /\ is_group
    /\ \E a \in LoadArgs : memo[a].n > 0 /\ memo[a].first.err = NoErr
    /\ fields = DLWParser_init(config).fields /\ Len(fields) = 2

EngineFailed(c) ==
    \/ c.op = "D.instruments" /\ engine.failResolve
    \/ c.op = "D.features" /\ engine.badExpr \in SeqToSet(c.exprs.items)

\* C10: when D.instruments or D.features fails during a load, the failing
\* call is the last call of the load (no retry, no later group), the load
\* raises that failure and returns no table.
C10_FailurePropagates ==
    Done("load")
        => \A i \in 1..Len(calls) :
              EngineFailed(calls[i])
                  => /\ i = Len(calls)
                     /\ ret.err = "EngineError"
                     /\ ret.df = NoTable
                     /\ Len(parts) = Len(GroupCalls) - 1

C10_Witness ==
    /\ Done("load") /\ ret.err = "EngineError"
    /\ EngineFailed(calls[Len(calls)])
    /\ Len(GroupCalls) = 1 /\ Len(fields) = 2
====
